---- MODULE Spec2Model ----
(***************************************************************************)
(* A model of the volatility-arbitrage algorithm: the per-instrument       *)
(* decision engine (AssetArbitrageStrategy.Execute), the indicator         *)
(* wrappers it reads (Indicators.py) and the host handlers that drive it   *)
(* (VolatilityArbitrage.OnSecuritiesChanged / OnData).                     *)
(*                                                                         *)
(* Numbers.  Prices, band values and holding values are integers.  The     *)
(* fractions of AssetStrategy.py are kept in percent, and a comparison     *)
(* against a product or a quotient is cross-multiplied:                    *)
(*     price < average_price * (1 - 0.05)                                  *)
(*         is   100 * price < (100 - 5) * average_price                    *)
(*     sum / TotalPortfolioValue > 0.80                                    *)
(*         is   100 * sum > 80 * TotalPortfolioValue   (total > 0)         *)
(* which is the exact comparison the floating-point code approximates.     *)
(* The total portfolio value is taken positive.                            *)
(*                                                                         *)
(* Host state.  Securities[symbol].Price, Portfolio[symbol] and            *)
(* Portfolio.TotalPortfolioValue belong to the host, which changes them    *)
(* between two handlers (bars, fills).  A handler takes them as inputs     *)
(* drawn from small sets, and each logged Execute call keeps what it read. *)
(*                                                                         *)
(* Library indicators.  algorithm.BB / RSI / SMA are objects of the host   *)
(* library.  The model keeps, per object, the number of samples it was     *)
(* given and its Current values; IsReady is samples >= period, and the     *)
(* values an Update produces are drawn from small sets (lower <= middle    *)
(* <= upper, 0 <= rsi <= 100).  The window lengths 14 / 20 / 50 of         *)
(* Indicators.py are scaled down to RsiPeriod < BandPeriod < SmaPeriod.    *)
(*                                                                         *)
(* HistoricalVolatility keeps its own window, modelled value by value: a   *)
(* log-return is the pair of the two prices it is the logarithm of.        *)
(*                                                                         *)
(* Records of the host.  handler, history and closes record what the host  *)
(* called and delivered; no handler reads them.                            *)
(***************************************************************************)
EXTENDS Integers, Sequences, FiniteSets, TLC

VARIABLES
    IsWarmingUp,          \* QCAlgorithm.IsWarmingUp
    symbol_data,          \* main.py:39, a dict in insertion order: a sequence of entries
    evals,                \* the Execute calls of the last handler, in call order
    handler,              \* the last handler the host called, and the symbols it named
    history,              \* per symbol, what the host did since it last removed it
    closes                \* the closes given to one HistoricalVolatility, oldest first

vars == <<IsWarmingUp, symbol_data, evals, handler, history, closes>>

----------------------------------------------------------------------------
(* Bounds *)

\* Window lengths of the library indicators, scaled (Indicators.py:45, :18, :91
\* give 14, 20 and 50).
RsiPeriod == 1
BandPeriod == 2
SmaPeriod == 3

\* Samples are counted up to here, where every indicator is ready.
MaxSamples == SmaPeriod

\* Window length of HistoricalVolatility, scaled (Indicators.py:64 gives 20).
VolPeriod == 2

\* Closes given to one HistoricalVolatility.
MaxObservations == 4

----------------------------------------------------------------------------
(* AssetArbitrageStrategy.__init__: the risk parameters, in percent *)

long_trade_size == 5
short_trade_size == 3
long_stop_loss == 5
short_stop_loss == 3
max_portfolio_exposure == 80

\* The oscillator thresholds of the entry rules (AssetStrategy.py:61, :65).
RsiOversold == 30
RsiOverbought == 70

----------------------------------------------------------------------------
(* Values *)

\* Securities[symbol].Price: None, or a number <<p>>.
None == << >>
Num(p) == <<p>>
Val(p) == p[1]

Abs(x) == IF x < 0 THEN -x ELSE x

\* The securities of the portfolio; s1 and s2 are eligible for the universe,
\* s3 is held but never selected.
AllSecurities == {"s1", "s2", "s3"}
Symbols == {"s1", "s2"}

RECURSIVE SumOver(_, _)
SumOver(f, S) ==
    IF S = {} THEN 0
    ELSE LET x == CHOOSE y \in S : TRUE
         IN  f[x] + SumOver(f, S \ {x})

----------------------------------------------------------------------------
(* Indicators.py *)

\* A library indicator as the wrappers see it: the samples it was given.
\* Its Current values are read from the library when Execute runs.
NewIndicator == [samples |-> 0]

\* A log-return np.log(price / previous_price), kept as the pair of the two
\* prices; the return of two equal prices is log(1) = 0.
ZeroReturn == <<1, 1>>
LogReturn(price, previous_price) ==
    IF price = previous_price THEN ZeroReturn ELSE <<price, previous_price>>

\* A return r read back as a price: r > 0, and np.log(price / r).
ReturnPositive(r) == r[1] > r[2]
LogOverReturn(price, r) == <<"log", price, r>>

\* HistoricalVolatility.__init__: an empty RollingWindow, newest value first.
NewHistoricalVolatility == [returns |-> << >>]

\* RollingWindow.Add: the value goes to index 0, the oldest one leaves a
\* full window.
WindowAdd(window, x) ==
    IF Len(window) < VolPeriod THEN <<x>> \o window
    ELSE <<x>> \o SubSeq(window, 1, VolPeriod - 1)

\* HistoricalVolatility.Update (Indicators.py:69-77).  previous_price is
\* self.returns[0], the newest return of the window, unless that is 0, and
\* then it is the price itself.
HistoricalVolatilityUpdate(hist_vol, price) ==
    IF Len(hist_vol.returns) > 0
    THEN LET newest == hist_vol.returns[1]
             log_return ==
                 IF newest # ZeroReturn
                 THEN IF ReturnPositive(newest)
                      THEN LogOverReturn(price, newest) ELSE ZeroReturn
                 ELSE IF price > 0 THEN LogReturn(price, price) ELSE ZeroReturn
         IN  [returns |-> WindowAdd(hist_vol.returns, log_return)]
    ELSE [returns |-> WindowAdd(hist_vol.returns, ZeroReturn)]

\* main.py:66-71, the indicator set of a newly added symbol.
NewIndicators ==
    [contrarian_bands |-> NewIndicator, rsi |-> NewIndicator,
     hist_vol |-> NewHistoricalVolatility, trend |-> NewIndicator]

\* CustomBollingerBands.HasSignal: self.bbands.IsReady
BandsHasSignal(contrarian_bands) == contrarian_bands.samples >= BandPeriod

\* RSIIndicator.HasSignal: self.rsi.IsReady
RsiHasSignal(rsi) == rsi.samples >= RsiPeriod

\* IsUptrend without the test of sma.IsReady.
IsUptrendUnready(trend, sma, price) == Val(price) > sma

\* TrendFilter.IsUptrend: price > sma once the average is ready, else False.
IsUptrend(trend, sma, price) ==
    IF trend.samples >= SmaPeriod THEN Val(price) > sma ELSE FALSE

\* IsDowntrend with <= for <.
IsDowntrendOrEqual(trend, sma, price) ==
    IF trend.samples >= SmaPeriod THEN Val(price) <= sma ELSE FALSE

\* TrendFilter.IsDowntrend
IsDowntrend(trend, sma, price) ==
    IF trend.samples >= SmaPeriod THEN Val(price) < sma ELSE FALSE

----------------------------------------------------------------------------
(* AssetStrategy.py: AssetArbitrageStrategy.Execute *)

\* The calls Execute makes on the algorithm.
EnterLong == [op |-> "SetHoldings", target |-> long_trade_size]
EnterShort == [op |-> "SetHoldings", target |-> -short_trade_size]
Liquidate == [op |-> "Liquidate", target |-> 0]

\* AssetStrategy.py:55, the numerator: the sum of HoldingsValue over
\* Portfolio.Values (signed: a short holding has a negative value).
HoldingsValueSum(P) ==
    SumOver([s \in DOMAIN P |-> P[s].HoldingsValue], DOMAIN P)

\* AssetStrategy.py:55-56: portfolio_exposure > self.max_portfolio_exposure
ExposureExceeded(P, total) ==
    100 * HoldingsValueSum(P) > max_portfolio_exposure * total

\* LongEntry with the oscillator threshold included (<= for <).
LongEntryAtThreshold(ind, cur, price, holdings) ==
    /\ holdings = 0
    /\ Val(price) < cur.lower
    /\ cur.rsi <= RsiOversold
    /\ IsUptrend(ind.trend, cur.sma, price)

\* AssetStrategy.py:61
LongEntry(ind, cur, price, holdings) ==
    /\ holdings = 0
    /\ Val(price) < cur.lower
    /\ cur.rsi < RsiOversold
    /\ IsUptrend(ind.trend, cur.sma, price)

\* ShortEntry with the upper band included (>= for >).
ShortEntryAtBand(ind, cur, price, holdings) ==
    /\ holdings = 0
    /\ Val(price) >= cur.upper
    /\ cur.rsi > RsiOverbought
    /\ IsDowntrend(ind.trend, cur.sma, price)

\* AssetStrategy.py:65
ShortEntry(ind, cur, price, holdings) ==
    /\ holdings = 0
    /\ Val(price) > cur.upper
    /\ cur.rsi > RsiOverbought
    /\ IsDowntrend(ind.trend, cur.sma, price)

\* EntryActions with the short branch pasted from the long one: an if of its
\* own, its condition left as pasted.
EntryActionsPasted(ind, cur, price, holdings) ==
    (IF LongEntry(ind, cur, price, holdings) THEN <<EnterLong>> ELSE << >>)
    \o (IF LongEntry(ind, cur, price, holdings) THEN <<EnterShort>> ELSE << >>)

\* AssetStrategy.py:60-66, the if / elif of the two entries.
EntryActions(ind, cur, price, holdings) ==
    IF LongEntry(ind, cur, price, holdings) THEN <<EnterLong>>
    ELSE IF ShortEntry(ind, cur, price, holdings) THEN <<EnterShort>>
    ELSE << >>

\* LongStopLoss with the stop level taken as the fraction of the entry price
\* (average_price * long_stop_loss, the "1 -" dropped).
LongStopLossNoBase(price, holdings, average_price) ==
    holdings > 0 /\ 100 * Val(price) < long_stop_loss * average_price

\* AssetStrategy.py:69
LongStopLoss(price, holdings, average_price) ==
    holdings > 0 /\ 100 * Val(price) < (100 - long_stop_loss) * average_price

\* AssetStrategy.py:74
ShortStopLoss(price, holdings, average_price) ==
    holdings < 0 /\ 100 * Val(price) > (100 + short_stop_loss) * average_price

\* LongExit taken for every position that is not short (>= 0 for > 0).
LongExitNotShort(cur, price, holdings) ==
    holdings >= 0 /\ Val(price) >= cur.middle

\* LongExit with a strict comparison (> for >=): no exit at the middle band.
LongExitStrict(cur, price, holdings) ==
    holdings > 0 /\ Val(price) > cur.middle

\* AssetStrategy.py:79
LongExit(cur, price, holdings) ==
    holdings > 0 /\ Val(price) >= cur.middle

\* AssetStrategy.py:83
ShortExit(cur, price, holdings) ==
    holdings < 0 /\ Val(price) <= cur.middle

\* AssetStrategy.py:68-84, four independent ifs, each calling Liquidate.
ExitActions(cur, price, holdings, average_price) ==
    (IF LongStopLoss(price, holdings, average_price) THEN <<Liquidate>> ELSE << >>)
    \o (IF ShortStopLoss(price, holdings, average_price) THEN <<Liquidate>> ELSE << >>)
    \o (IF LongExit(cur, price, holdings) THEN <<Liquidate>> ELSE << >>)
    \o (IF ShortExit(cur, price, holdings) THEN <<Liquidate>> ELSE << >>)

\* NotReady with "and" for "or": both indicators must lack a signal.
NotReadyBoth(ind) ==
    ~BandsHasSignal(ind.contrarian_bands) /\ ~RsiHasSignal(ind.rsi)

\* AssetStrategy.py:43-44
NotReady(ind) ==
    ~BandsHasSignal(ind.contrarian_bands) \/ ~RsiHasSignal(ind.rsi)

\* InvalidPrice with < for <=: a price of 0 passes.
InvalidPriceNegative(price) == price = None \/ Val(price) < 0

\* AssetStrategy.py:50
InvalidPrice(price) == price = None \/ Val(price) <= 0

\* Execute: the calls it makes, in order.  ind are the indicator objects,
\* cur the library's Current values, price / holdings / average_price the
\* reads of lines 46-48, P and total the portfolio read at line 55.
Execute(ind, cur, price, holdings, average_price, P, total) ==
    IF NotReady(ind) THEN << >>
    ELSE IF InvalidPrice(price) THEN << >>
    ELSE IF ExposureExceeded(P, total) THEN << >>
    ELSE EntryActions(ind, cur, price, holdings)
         \o ExitActions(cur, price, holdings, average_price)

\* One Execute call as the log keeps it: what the call read, the numerator
\* of portfolio_exposure as line 55 computes it, and the calls it made.
Evaluation(symbol, ind, cur, price, P, total) ==
    [symbol |-> symbol,
     indicators |-> ind,
     current |-> cur,
     price |-> price,
     holdings |-> P[symbol].Quantity,
     average_price |-> P[symbol].AveragePrice,
     values |-> [s \in DOMAIN P |-> P[s].HoldingsValue],
     total |-> total,
     exposure |-> HoldingsValueSum(P),
     actions |-> Execute(ind, cur, price, P[symbol].Quantity,
                         P[symbol].AveragePrice, P, total)]

----------------------------------------------------------------------------
(* Indicators.py: Update *)

\* CustomBollingerBands.Update / RSIIndicator.Update / TrendFilter.Update:
\* one more sample for the library indicator.
UpdateIndicator(indicator) ==
    [samples |-> IF indicator.samples < MaxSamples
                 THEN indicator.samples + 1 ELSE indicator.samples]

\* main.py:91-95, the Update calls of one symbol in OnData; close is
\* data[symbol].Close.
UpdateIndicators(ind, close) ==
    [contrarian_bands |-> UpdateIndicator(ind.contrarian_bands),
     rsi |-> UpdateIndicator(ind.rsi),
     hist_vol |-> HistoricalVolatilityUpdate(ind.hist_vol, close),
     trend |-> UpdateIndicator(ind.trend)]

----------------------------------------------------------------------------
(* Host inputs *)

Position(q, a, v) == [Quantity |-> q, AveragePrice |-> a, HoldingsValue |-> v]
Flat == Position(0, 0, 0)

\* The library's Current values.
Current(lower, middle, upper, rsi, sma) ==
    [lower |-> lower, middle |-> middle, upper |-> upper, rsi |-> rsi, sma |-> sma]

\* What SetHoldings / Liquidate do to the position once the order is filled.
Fill(P, symbol, price, total, actions) ==
    IF actions = << >> THEN P
    ELSE LET a == actions[Len(actions)]
         IN  IF a.op = "Liquidate" THEN [P EXCEPT ![symbol] = Flat]
             ELSE [P EXCEPT ![symbol] =
                      Position(a.target, Val(price), (a.target * total) \div 100)]

----------------------------------------------------------------------------
(* main.py *)

\* main.py:65-73
NewEntry(symbol) == [symbol |-> symbol, indicators |-> NewIndicators]

Registered(sd) == {sd[i].symbol : i \in DOMAIN sd}

\* AddAll without the test of line 64: an added symbol gets a new indicator
\* set whether it is registered or not.
RECURSIVE AddAllAnew(_, _)
AddAllAnew(sd, added) ==
    IF added = << >> THEN sd
    ELSE AddAllAnew(IF Head(added) \notin Registered(sd)
                    THEN Append(sd, NewEntry(Head(added)))
                    ELSE [i \in DOMAIN sd |->
                             IF sd[i].symbol = Head(added)
                             THEN NewEntry(Head(added)) ELSE sd[i]],
                    Tail(added))

\* main.py:62-73, the loop over changes.AddedSecurities.
RECURSIVE AddAll(_, _)
AddAll(sd, added) ==
    IF added = << >> THEN sd
    ELSE AddAll(IF Head(added) \notin Registered(sd)
                THEN Append(sd, NewEntry(Head(added))) ELSE sd,
                Tail(added))

\* RemoveAll that deletes nothing.
RemoveNone(sd, removed) == sd

\* main.py:75-78, the loop over changes.RemovedSecurities.
RemoveAll(sd, removed) == SelectSeq(sd, LAMBDA e : e.symbol \notin removed)

\* main.py:89-96, the loop of OnData from entry i on: the entries after the
\* pass and the Execute calls made.  data maps the symbols of the slice to
\* their price, lib to the library's Current values after the update;
\* filled says whether the host fills an order before the next symbol.
RECURSIVE Pass(_, _, _, _, _, _, _)
Pass(sd, i, data, lib, filled, P, total) ==
    IF i > Len(sd) THEN [symbol_data |-> sd, evals |-> << >>]
    ELSE IF sd[i].symbol \notin DOMAIN data
    THEN Pass(sd, i + 1, data, lib, filled, P, total)
    ELSE LET symbol == sd[i].symbol
             ind == UpdateIndicators(sd[i].indicators, Val(data[symbol]))
             ev == Evaluation(symbol, ind, lib[symbol], data[symbol], P, total)
             P2 == IF filled THEN Fill(P, symbol, data[symbol], total, ev.actions)
                   ELSE P
             rest == Pass([sd EXCEPT ![i].indicators = ind], i + 1,
                          data, lib, filled, P2, total)
         IN  [symbol_data |-> rest.symbol_data, evals |-> <<ev>> \o rest.evals]

----------------------------------------------------------------------------
(* The algorithm: VolatilityArbitrage and its host *)

\* The inputs of the handlers.
\* A bar of the slice: its price, and the library's Current values once the
\* indicators were updated with it.
SysBars ==
    {[price |-> Num(94), current |-> Current(96, 100, 103, 25, 90)],
     [price |-> Num(104), current |-> Current(96, 100, 103, 75, 110)]}
SysTotals == {100}
SysPortfolios ==
    {[s \in AllSecurities |->
        IF s = "s1" THEN p1 ELSE IF s = "s2" THEN p2 ELSE p3] :
        p1 \in {Flat, Position(5, 100, 5)},
        p2 \in {Flat, Position(-3, 100, -3)},
        p3 \in {Flat, Position(76, 100, 76)}}
AddedLists == {<< >>, <<"s1">>, <<"s2">>, <<"s1", "s2">>, <<"s2", "s1">>}

Range(q) == {q[i] : i \in DOMAIN q}

\* The last handler called and the symbols it named.
Called(name, symbols) == [name |-> name, symbols |-> symbols]

\* Per symbol: the observations its indicators were given since the host
\* last removed it, and whether a removal found observations to discard.
NoHistory == [s \in Symbols |-> [observed |-> 0, discarded |-> FALSE]]

\* The host removes the symbols of removed.
Forget(h, removed) ==
    [s \in Symbols |->
        IF s \in removed
        THEN [observed |-> 0, discarded |-> h[s].discarded \/ h[s].observed > 0]
        ELSE h[s]]

\* The host delivers a bar to the indicators of the symbols of observed.
Observe(h, observed) ==
    [s \in Symbols |->
        IF s \in observed /\ h[s].observed < MaxSamples
        THEN [h[s] EXCEPT !.observed = @ + 1] ELSE h[s]]

Init ==
    /\ IsWarmingUp = TRUE
    /\ symbol_data = << >>
    /\ evals = << >>
    /\ handler = Called("Initialize", {})
    /\ history = NoHistory
    /\ closes = << >>

\* main.py:37, the host ends the warm-up period.
EndWarmUp ==
    /\ IsWarmingUp
    /\ IsWarmingUp' = FALSE
    /\ handler' = Called("EndWarmUp", {})
    /\ UNCHANGED <<symbol_data, evals, history, closes>>

\* main.py:56-78
OnSecuritiesChanged(added, removed) ==
    /\ symbol_data' = RemoveAll(AddAll(symbol_data, added), removed)
    /\ evals' = << >>
    /\ handler' = Called("OnSecuritiesChanged", Range(added))
    /\ history' = Forget(history, removed)
    /\ UNCHANGED <<IsWarmingUp, closes>>

\* OnData without the test of line 86: the loop runs during warm-up too.
OnDataNoWarmUp(data, lib, filled, P, total) ==
    /\ LET pass == Pass(symbol_data, 1, data, lib, filled, P, total)
       IN  /\ symbol_data' = pass.symbol_data
           /\ evals' = pass.evals
    /\ history' = Observe(history, DOMAIN data \cap Registered(symbol_data))
    /\ handler' = Called("OnData", DOMAIN data)
    /\ UNCHANGED <<IsWarmingUp, closes>>

\* main.py:80-96
OnData(data, lib, filled, P, total) ==
    /\ IF IsWarmingUp
       THEN /\ symbol_data' = symbol_data
            /\ evals' = << >>
            /\ history' = history
       ELSE LET pass == Pass(symbol_data, 1, data, lib, filled, P, total)
            IN  /\ symbol_data' = pass.symbol_data
                /\ evals' = pass.evals
                /\ history' = Observe(history,
                                      DOMAIN data \cap Registered(symbol_data))
    /\ handler' = Called("OnData", DOMAIN data)
    /\ UNCHANGED <<IsWarmingUp, closes>>

Next ==
    \/ EndWarmUp
    \/ \E added \in AddedLists, removed \in SUBSET Symbols :
          /\ Range(added) \cap removed = {}
          /\ Range(added) \cup removed # {}
          /\ OnSecuritiesChanged(added, removed)
    \/ \E D \in SUBSET Symbols :
          \E bars \in [D -> SysBars], filled \in BOOLEAN,
             P \in SysPortfolios, total \in SysTotals :
             OnData([s \in D |-> bars[s].price], [s \in D |-> bars[s].current],
                    filled, P, total)

Spec == Init /\ [][Next]_vars

----------------------------------------------------------------------------
(* One Execute call on every input *)

ExecPrices == {None, Num(0), Num(94), Num(100), Num(104)}
ExecTotals == {100, 125}
ExecCurrent ==
    {Current(b[1], b[2], b[3], r, m) :
        b \in {<<96, 100, 103>>, <<88, 92, 94>>, <<104, 108, 112>>},
        r \in {25, 30, 70, 75},
        m \in {90, 100, 110}}
ExecPortfolios ==
    {[s \in AllSecurities |->
        IF s = "s1" THEN p1 ELSE IF s = "s2" THEN p2 ELSE p3] :
        p1 \in {Flat, Position(5, 100, 5), Position(5, 96, 5),
                Position(-3, 100, -3), Position(-3, 96, -3)},
        p2 \in {Flat, Position(40, 100, 40), Position(-40, 100, -40)},
        p3 \in {Flat, Position(40, 100, 40), Position(45, 100, 45),
                Position(-45, 100, -45)}}

\* The indicator set after n passes of OnData.
RECURSIVE UpdatedIndicators(_)
UpdatedIndicators(n) ==
    IF n = 0 THEN NewIndicators
    ELSE UpdateIndicators(UpdatedIndicators(n - 1), 100)

ExecInit ==
    /\ IsWarmingUp = FALSE
    /\ evals = << >>
    /\ handler = Called("OnData", {"s1"})
    /\ closes = << >>
    /\ \E n \in 0..MaxSamples :
          /\ symbol_data = <<[symbol |-> "s1", indicators |-> UpdatedIndicators(n)]>>
          /\ history = [NoHistory EXCEPT !["s1"].observed = n]

\* main.py:96, data_set["strategy"].Execute(indicators)
ExecuteCall(cur, price, P, total) ==
    /\ evals' = <<Evaluation(symbol_data[1].symbol, symbol_data[1].indicators,
                             cur, price, P, total)>>
    /\ UNCHANGED <<IsWarmingUp, symbol_data, handler, history, closes>>

ExecNext ==
    /\ evals = << >>
    /\ \E cur \in ExecCurrent, price \in ExecPrices,
          P \in ExecPortfolios, total \in ExecTotals :
          ExecuteCall(cur, price, P, total)

SpecExecute == ExecInit /\ [][ExecNext]_vars

----------------------------------------------------------------------------
(* One HistoricalVolatility on every sequence of closes *)

VolCloses == {94, 100, 104}

VolInit ==
    /\ IsWarmingUp = FALSE
    /\ symbol_data = <<NewEntry("s1")>>
    /\ evals = << >>
    /\ handler = Called("OnData", {"s1"})
    /\ history = NoHistory
    /\ closes = << >>

\* main.py:94, indicators["hist_vol"].Update(data)
VolUpdate(close) ==
    /\ Len(closes) < MaxObservations
    /\ symbol_data' = [symbol_data EXCEPT ![1].indicators.hist_vol =
                           HistoricalVolatilityUpdate(@, close)]
    /\ closes' = Append(closes, close)
    /\ UNCHANGED <<IsWarmingUp, evals, handler, history>>

VolNext == \E close \in VolCloses : VolUpdate(close)

SpecVolatility == VolInit /\ [][VolNext]_vars

----------------------------------------------------------------------------
(* The claims, each over the logged Execute calls *)

Emits(e, a) == \E i \in DOMAIN e.actions : e.actions[i] = a
Times(e, a) == Cardinality({i \in DOMAIN e.actions : e.actions[i] = a})
EmitsEntry(e) == \E i \in DOMAIN e.actions : e.actions[i].op = "SetHoldings"

\* has_signal() of the band indicator and of the oscillator.
BandReady(e) == e.indicators.contrarian_bands.samples >= BandPeriod
OscillatorReady(e) == e.indicators.rsi.samples >= RsiPeriod
TrendReady(e) == e.indicators.trend.samples >= SmaPeriod
PositivePrice(e) == e.price # None /\ Val(e.price) > 0
Acting(e) == BandReady(e) /\ OscillatorReady(e) /\ PositivePrice(e)

\* The exposure ratio above the maximum of 0.80: as the sum of the absolute
\* holding values over the total, and as the sum of the signed values.
AbsValueSum(e) ==
    SumOver([s \in DOMAIN e.values |-> Abs(e.values[s])], DOMAIN e.values)
SignedValueSum(e) == SumOver(e.values, DOMAIN e.values)
AbsExposureAboveMax(e) == 100 * AbsValueSum(e) > 80 * e.total
SignedExposureAboveMax(e) == 100 * SignedValueSum(e) > 80 * e.total

\* The rules of the decision policy, on what the call read (a rule holds only
\* of a defined, positive price).
LongStopRule(e) ==
    PositivePrice(e) /\ e.holdings > 0 /\ 100 * Val(e.price) < 95 * e.average_price
ShortStopRule(e) ==
    PositivePrice(e) /\ e.holdings < 0 /\ 100 * Val(e.price) > 103 * e.average_price
LongExitRule(e) ==
    PositivePrice(e) /\ e.holdings > 0 /\ Val(e.price) >= e.current.middle
ShortExitRule(e) ==
    PositivePrice(e) /\ e.holdings < 0 /\ Val(e.price) <= e.current.middle
LongEntryRule(e) ==
    /\ PositivePrice(e)
    /\ e.holdings = 0
    /\ Val(e.price) < e.current.lower
    /\ e.current.rsi < 30
    /\ TrendReady(e) /\ Val(e.price) > e.current.sma
ShortEntryRule(e) ==
    /\ PositivePrice(e)
    /\ e.holdings = 0
    /\ Val(e.price) > e.current.upper
    /\ e.current.rsi > 70
    /\ TrendReady(e) /\ Val(e.price) < e.current.sma

Evals == {evals[i] : i \in DOMAIN evals}

\* C1: risk reduction is never blocked by the exposure gate: in every
\* evaluation with band and oscillator ready, a positive price, a non-flat
\* position and a stop-loss or middle-band exit condition, Liquidate is
\* emitted, whatever the exposure ratio.
C1_RiskReductionNeverBlocked ==
    \A e \in Evals :
        (/\ Acting(e)
         /\ e.holdings # 0
         /\ \/ LongStopRule(e) \/ ShortStopRule(e)
            \/ LongExitRule(e) \/ ShortExitRule(e))
        => Emits(e, Liquidate)

\* C2: one evaluation emits at most one action in total, and so at most one
\* Liquidate.
C2_AtMostOneAction ==
    \A e \in Evals : Len(e.actions) <= 1 /\ Times(e, Liquidate) <= 1

\* C3: the exposure ratio Execute compares against the maximum is the sum of
\* the absolute holding values over the total portfolio value (the total is
\* the same positive denominator on both sides).
C3_ExposureIsAbsoluteSum ==
    \A e \in Evals : Acting(e) => e.exposure = AbsValueSum(e)

\* C4: with the exposure ratio (the sum of the absolute holding values over
\* the total) strictly above the maximum no entry is emitted; with it at or
\* below the maximum an entry whose rule matches is emitted.
C4_ExposureGateOnEntries ==
    \A e \in Evals :
        /\ AbsExposureAboveMax(e) => ~EmitsEntry(e)
        /\ (Acting(e) /\ ~AbsExposureAboveMax(e) /\ LongEntryRule(e))
              => Emits(e, EnterLong)
        /\ (Acting(e) /\ ~AbsExposureAboveMax(e) /\ ShortEntryRule(e))
              => Emits(e, EnterShort)

\* The gate of C4 against the ratio Execute itself computes (the signed sum):
\* above the maximum no action at all is emitted.
SignedExposureGate ==
    \A e \in Evals : SignedExposureAboveMax(e) => e.actions = << >>

\* C5: with band and oscillator ready, a positive price and the exposure not
\* above the maximum, a long position with price < 0.95 x average entry
\* price, and a short position with price > 1.03 x average entry price, get
\* a Liquidate in that evaluation, wherever the price is against the middle
\* band.  (The exposure here is the signed ratio the code computes; the
\* absolute ratio not above the maximum implies it.)
C5_StopLossLiquidates ==
    \A e \in Evals :
        (/\ Acting(e)
         /\ ~SignedExposureAboveMax(e)
         /\ LongStopRule(e) \/ ShortStopRule(e))
        => Emits(e, Liquidate)

\* A long position stopped out below the middle band, where no exit rule holds.
C5_Witness ==
    \E e \in Evals :
        /\ Acting(e) /\ ~AbsExposureAboveMax(e)
        /\ LongStopRule(e)
        /\ Val(e.price) < e.current.middle
        /\ Emits(e, Liquidate)

\* C6: an evaluation in which the band indicator or the oscillator is not
\* ready emits no action, whatever the price, the position, the exposure and
\* the trend, after any sequence of handlers.
C6_NotReadyNoAction ==
    \A e \in Evals : (~BandReady(e) \/ ~OscillatorReady(e)) => e.actions = << >>

\* The oscillator is ready and the band is not, for a long position at the
\* middle band whose exit rule holds: nothing is emitted.
C6_Witness ==
    \E e \in Evals :
        /\ ~BandReady(e) /\ OscillatorReady(e)
        /\ PositivePrice(e) /\ ~AbsExposureAboveMax(e)
        /\ LongExitRule(e)
        /\ e.actions = << >>

\* C7: with band and oscillator ready, a positive price and the exposure not
\* above the maximum, EnterLong (a holdings target of 0.05) is emitted
\* exactly when the position is flat, price < lower band, oscillator < 30 and
\* the trend filter reports an uptrend; no other evaluation emits it, and no
\* other positive target is ever requested.
C7_LongEntryRule ==
    \A e \in Evals :
        /\ (Acting(e) /\ ~SignedExposureAboveMax(e))
              => (Emits(e, EnterLong) <=> LongEntryRule(e))
        /\ Emits(e, EnterLong)
              => (Acting(e) /\ ~SignedExposureAboveMax(e) /\ LongEntryRule(e))
        /\ \A i \in DOMAIN e.actions :
              (e.actions[i].op = "SetHoldings" /\ e.actions[i].target > 0)
                 => e.actions[i].target = 5

C7_Witness ==
    \E e \in Evals :
        /\ Acting(e) /\ ~AbsExposureAboveMax(e)
        /\ LongEntryRule(e)
        /\ e.actions = <<[op |-> "SetHoldings", target |-> 5]>>

\* C8: with band and oscillator ready, a positive price and the exposure not
\* above the maximum, EnterShort (a holdings target of -0.03) is emitted
\* exactly when the long entry rule does not match, the position is flat,
\* price > upper band, oscillator > 70 and the trend filter reports a
\* downtrend; no other evaluation emits it, and no other negative target is
\* ever requested.
C8_ShortEntryRule ==
    \A e \in Evals :
        /\ (Acting(e) /\ ~SignedExposureAboveMax(e))
              => (Emits(e, EnterShort) <=> (~LongEntryRule(e) /\ ShortEntryRule(e)))
        /\ Emits(e, EnterShort)
              => (Acting(e) /\ ~SignedExposureAboveMax(e) /\ ShortEntryRule(e))
        /\ \A i \in DOMAIN e.actions :
              (e.actions[i].op = "SetHoldings" /\ e.actions[i].target < 0)
                 => e.actions[i].target = -3

C8_Witness ==
    \E e \in Evals :
        /\ Acting(e) /\ ~AbsExposureAboveMax(e)
        /\ ShortEntryRule(e)
        /\ e.actions = <<[op |-> "SetHoldings", target |-> -3]>>

\* C9: no evaluation emits both an EnterLong and an EnterShort (nor two
\* entries of any kind).
C9_NeverBothEntries ==
    \A e \in Evals :
        /\ ~(Emits(e, EnterLong) /\ Emits(e, EnterShort))
        /\ Cardinality({i \in DOMAIN e.actions : e.actions[i].op = "SetHoldings"}) <= 1

\* An evaluation that emits an entry: it is the only action of the call.
C9_Witness ==
    \E e \in Evals :
        /\ Acting(e) /\ ~AbsExposureAboveMax(e)
        /\ Emits(e, EnterLong) \/ Emits(e, EnterShort)
        /\ Len(e.actions) = 1

\* C10: an entry is emitted only if the position quantity read at the start
\* of the evaluation is 0, and a Liquidate only if it is not 0, so no
\* evaluation emits both an entry and a Liquidate.
C10_EntryExitExclusive ==
    \A e \in Evals :
        /\ EmitsEntry(e) => e.holdings = 0
        /\ Emits(e, Liquidate) => e.holdings # 0
        /\ ~(EmitsEntry(e) /\ Emits(e, Liquidate))

\* A short entry above the upper band, so at or above the middle band where
\* the long exit compares: the flat position gets the entry and no Liquidate.
C10_Witness ==
    \E e \in Evals :
        /\ e.holdings = 0
        /\ Acting(e) /\ ~AbsExposureAboveMax(e)
        /\ Val(e.price) >= e.current.middle
        /\ EmitsEntry(e)
        /\ ~Emits(e, Liquidate)

\* C11: with band and oscillator ready, a positive price and the exposure not
\* above the maximum, a long position with price >= middle band and a short
\* position with price <= middle band get a Liquidate, the tie price = middle
\* band included; a non-flat position for which neither its stop-loss nor
\* its exit rule holds gets no action.
C11_TargetExit ==
    \A e \in Evals :
        (Acting(e) /\ ~SignedExposureAboveMax(e)) =>
            /\ (LongExitRule(e) \/ ShortExitRule(e)) => Emits(e, Liquidate)
            /\ (e.holdings > 0 /\ ~LongStopRule(e) /\ ~LongExitRule(e))
                  => e.actions = << >>
            /\ (e.holdings < 0 /\ ~ShortStopRule(e) /\ ~ShortExitRule(e))
                  => e.actions = << >>

\* A long position exactly at the middle band, above its stop level: the
\* exit alone liquidates it.
C11_Witness ==
    \E e \in Evals :
        /\ Acting(e) /\ ~AbsExposureAboveMax(e)
        /\ e.holdings > 0
        /\ Val(e.price) = e.current.middle
        /\ ~LongStopRule(e)
        /\ e.actions = <<[op |-> "Liquidate", target |-> 0]>>

\* The indicator set ind holds no more than n observations.
WithinObserved(ind, n) ==
    /\ ind.contrarian_bands.samples <= n
    /\ ind.rsi.samples <= n
    /\ ind.trend.samples <= n
    /\ Len(ind.hist_vol.returns) <= n

\* C12: once a symbol was removed and added again, its indicator state, and
\* the indicator state of every decision about it, is built only from the
\* observations given since: nothing of the earlier incarnation survives.
C12_FreshAfterReAdd ==
    /\ \A i \in DOMAIN symbol_data :
          WithinObserved(symbol_data[i].indicators,
                         history[symbol_data[i].symbol].observed)
    /\ \A e \in Evals :
          WithinObserved(e.indicators, history[e.symbol].observed)

\* The first decision about a symbol whose earlier incarnation had
\* observations: one sample, one zero return, not ready, no action.
C12_Witness ==
    \E e \in Evals :
        /\ history[e.symbol].discarded
        /\ e.indicators.trend.samples = 1
        /\ e.indicators.contrarian_bands.samples = 1
        /\ Len(e.indicators.hist_vol.returns) = 1
        /\ e.actions = << >>

\* C13: IsUptrend and IsDowntrend are never both true, and both are false
\* while the moving average is not ready and while the price equals it.
C13_TrendExclusive ==
    \A e \in Evals :
        e.price # None =>
            LET up == IsUptrend(e.indicators.trend, e.current.sma, e.price)
                down == IsDowntrend(e.indicators.trend, e.current.sma, e.price)
            IN  /\ ~(up /\ down)
                /\ e.indicators.trend.samples < SmaPeriod => (~up /\ ~down)
                /\ Val(e.price) = e.current.sma => (~up /\ ~down)

\* The moving average ready and the price exactly on it.
C13_Witness ==
    \E e \in Evals :
        /\ e.price # None
        /\ e.indicators.trend.samples >= SmaPeriod
        /\ Val(e.price) = e.current.sma
        /\ ~IsUptrend(e.indicators.trend, e.current.sma, e.price)
        /\ ~IsDowntrend(e.indicators.trend, e.current.sma, e.price)

\* C14: a data event that arrives while the warm-up flag is set updates no
\* indicator and evaluates nothing: the per-symbol state is unchanged and no
\* Execute call is made.
C14_WarmUpSkip ==
    [][(IsWarmingUp /\ handler'.name = "OnData")
          => (symbol_data' = symbol_data /\ evals' = << >>)]_vars

\* During warm-up, a slice with a registered symbol was handled and its
\* indicators are still new.
C14_Witness ==
    /\ IsWarmingUp
    /\ handler.name = "OnData"
    /\ \E i \in DOMAIN symbol_data :
          /\ symbol_data[i].symbol \in handler.symbols
          /\ symbol_data[i].indicators = NewIndicators
    /\ evals = << >>

\* C15: when the price is missing or not strictly positive, Execute emits no
\* action, whatever the position and the indicators.
C15_InvalidPriceSkips ==
    \A e \in Evals :
        (e.price = None \/ Val(e.price) <= 0) => e.actions = << >>

\* A long position at a price of 0, indicators ready: the stop-loss
\* comparison would hold, and nothing is emitted.
C15_Witness ==
    \E e \in Evals :
        /\ BandReady(e) /\ OscillatorReady(e) /\ TrendReady(e)
        /\ e.price = Num(0)
        /\ e.holdings > 0
        /\ ~AbsExposureAboveMax(e)
        /\ e.actions = << >>

\* The log-return of a close c relative to the close p before it, as the
\* pair of the two; zero when they are equal.
CloseReturn(c, p) == IF c = p THEN <<1, 1>> ELSE <<c, p>>

\* C16: the first close appends a zero return; every later close appends the
\* log-return of that close relative to the close immediately before it
\* (non-zero when the two differ), so the window holds the last VolPeriod
\* consecutive-close log-returns, newest first.
C16_ConsecutiveCloseReturns ==
    LET returns == symbol_data[1].indicators.hist_vol.returns
        n == Len(closes)
    IN  /\ Len(returns) = IF n < VolPeriod THEN n ELSE VolPeriod
        /\ \A j \in DOMAIN returns :
              returns[j] = IF n - j + 1 = 1 THEN <<1, 1>>
                           ELSE CloseReturn(closes[n - j + 1], closes[n - j])

\* C18: the Execute calls of one OnData pass are gated against one exposure
\* value, captured once per pass: after a call that emitted an entry, every
\* later call of the pass reads the exposure that call read.
C18_SameExposureInPass ==
    \A i, j \in DOMAIN evals :
        (i < j /\ EmitsEntry(evals[i])) =>
            /\ evals[j].exposure = evals[i].exposure
            /\ evals[j].total = evals[i].total

\* C19: while the trend average is not ready no entry is emitted, although
\* band and oscillator may be ready.
C19_NoEntryBeforeTrendReady ==
    \A e \in Evals :
        e.indicators.trend.samples < SmaPeriod =>
            ~Emits(e, EnterLong) /\ ~Emits(e, EnterShort)

\* Band and oscillator ready, the trend average not: a position is
\* liquidated all the same.
C19_Witness ==
    \E e \in Evals :
        /\ BandReady(e) /\ OscillatorReady(e)
        /\ e.indicators.trend.samples < SmaPeriod
        /\ e.holdings # 0
        /\ e.actions = <<[op |-> "Liquidate", target |-> 0]>>

\* The entries of symbol s in the registry sd.
EntriesOf(sd, s) == SelectSeq(sd, LAMBDA x : x.symbol = s)

\* C20: the registry holds at most one entry per symbol, and an add event
\* that names a registered symbol leaves its entry as it was.
C20_AddIdempotent ==
    /\ [](\A s \in Symbols : Len(EntriesOf(symbol_data, s)) <= 1)
    /\ [][\A s \in Symbols :
             (/\ handler'.name = "OnSecuritiesChanged"
              /\ s \in handler'.symbols
              /\ s \in Registered(symbol_data))
                => EntriesOf(symbol_data', s) = EntriesOf(symbol_data, s)]_vars

\* An add event named a symbol whose indicators had samples, and they still
\* have them.
C20_Witness ==
    /\ handler.name = "OnSecuritiesChanged"
    /\ \E i \in DOMAIN symbol_data :
          /\ symbol_data[i].symbol \in handler.symbols
          /\ symbol_data[i].indicators.trend.samples > 0
          /\ Len(symbol_data[i].indicators.hist_vol.returns) > 0

====
